---------------------------- MODULE Spec2Model ----------------------------
(***************************************************************************)
(* ChatPlug client-go: the GraphQL-over-websocket protocol client          *)
(* (gql_client.go) and the domain facade (client.go).                      *)
(*                                                                         *)
(* One process: a caller task that issues the facade's calls one after     *)
(* the other, a consumer that receives from the three delivery channels,   *)
(* and, per Connect call, one read-loop goroutine (GQLClient.Connect) and  *)
(* one router goroutine (ChatPlugClient.Connect) joined by an unbuffered   *)
(* channel.  A panic in any goroutine aborts the whole process.            *)
(***************************************************************************)
EXTENDS Integers, Sequences, FiniteSets

\* ------------------------------------------------------------------ bounds
\* Connect calls in a run (one read loop and one router each)
MaxConnects == 2
\* length of a run: Connect, Subscribe* and request calls plus frames read
\* by the read loops
MaxSteps == 4

\* --------------------------------------------------------------- constants
Kinds == {"msg", "cfg", "search"}
\* the order of the three `if` blocks of the router
KindOrder == <<"msg", "cfg", "search">>

\* the subscription document each Subscribe* call of the facade sends
KindQuery == [msg |-> "messageReceived", cfg |-> "configurationReceived",
              search |-> "subscribeToSearchRequests"]

connectionInitMsg == "connection_init"
startMsg == "start"

\* GenerateID: 4 random bytes printed with %x; never the empty string, and
\* nothing prevents two calls from returning the same token.
GenerateID == {"a", "b"}

\* ids a server may put in a frame: a missing "id" decodes to ""
FrameIDs == {""} \cup GenerateID

\* zero value of a decoded body (Go zero value of the struct)
Zero == "zero"
Vals == {"t1"}

\* IncomingPayload.Payload is a *json.RawMessage: nil when the field is
\* absent or null, otherwise some syntactically valid JSON:
\*   "noerrors" : JSON holding neither an error object nor a body: the
\*                empty array [], a scalar, {"data": 7}, ...
\*   "errors"   : a non-empty array of {"message", "locations"}
\*   "body"     : {"data": {<operation of kind>: {... val ...}}}
NoBody(s) == [shape |-> s, kind |-> "-", val |-> "-"]

ErrorPayloads == {NoBody(s) : s \in {"absent", "noerrors", "errors"}}

Payloads ==
    ErrorPayloads
    \cup {[shape |-> "body", kind |-> k, val |-> v] : k \in Kinds, v \in Vals}

\* A payload still held as raw bytes: ReadJSON decodes the envelope only.
Raw == NoBody("raw")

NoFrame == [type |-> "-", id |-> "-", payload |-> NoBody("absent"), seq |-> 0]

\* The n-th frame read from the transport.  The code reads the payload of
\* "data" and "error" frames only and the id of "data" frames only, so a
\* frame of another type stands for all of its type, and an "error" frame
\* carrying a body stands with those carrying "noerrors".
FramesAt(n) ==
    [type : {"data"}, id : FrameIDs, payload : Payloads, seq : {n}]
    \cup [type : {"error"}, id : FrameIDs, payload : ErrorPayloads, seq : {n}]
    \cup [type : {"connection_ack"}, id : {""}, payload : {NoBody("absent")},
          seq : {n}]

Loops == 1 .. MaxConnects

VARIABLES
    wsConn,       \* gqc.wsConn: 0 = nil, c = the c-th dialled connection
    connClosed,   \* connections on which Close() has been called
    callerPc,     \* "idle", or "handshake" while Connect blocks for the ack
    crashed,      \* "no", or the panic that aborted the process
    wsWrites,     \* every WriteJSON call, in order: [msg, conn, ok]
    subID,        \* msgSubID, cfgSubID, searchSubID
    reader,       \* per Connect: the read-loop goroutine
    router,       \* per Connect: the router goroutine
    nread,        \* frames read from the transport so far
    chanClosed,   \* per delivery channel: has it been closed
    httpCalls     \* outcome (ok?) of every call on the request/response path

vars == <<wsConn, connClosed, callerPc, crashed, wsWrites, subID, reader,
          router, nread, chanClosed, httpCalls>>

\* ------------------------------------------------------------------ codec

\* json.Marshal of an OperationMessage: "id" has omitempty, "payload" is a
\* struct (omitempty never drops it) whose three fields are always written.
EncodeOperation(type, id, query, variables, token) ==
    [type |-> type,
     id |-> IF id = "" THEN "<omitted>" ELSE id,
     payload |-> [query |-> query, variables |-> variables,
                  accessToken |-> token]]

\* json.Unmarshal(*packet.Payload, &body) for the body type of `kind`:
\* a body of another operation decodes without error to the zero value
\* (unknown fields are ignored); any other shape is an error and leaves the
\* zero value.
DecodeBody(kind, payload) ==
    IF payload.shape = "body"
    THEN [err |-> FALSE,
          val |-> IF payload.kind = kind THEN payload.val ELSE Zero]
    ELSE [err |-> TRUE, val |-> Zero]

\* What a task holding frame f knows of it before anyone has decoded its
\* payload: the envelope.  The read loop decodes the payload of "error"
\* frames itself; every other payload stays raw until the router's first
\* json.Unmarshal of it.
Envelope(f) == IF f.type = "error" THEN f ELSE [f EXCEPT !.payload = Raw]

\* lines 281-285: the read loop's handling of a frame of type "error";
\* the result is the panic it raises, or "no".
InspectError(msg) ==
    IF msg.type # "error" THEN "no"
    ELSE IF msg.payload.shape = "absent" THEN "nil payload"
    ELSE IF msg.payload.shape = "errors" THEN "no"
    ELSE "index out of range"

Idle == [pc |-> "recv", packet |-> NoFrame, kind |-> "-", val |-> "-"]

NotStarted == [pc |-> "none", packet |-> NoFrame, kind |-> "-", val |-> "-"]

NoReader == [pc |-> "none", msg |-> NoFrame, conn |-> 0]

\* a router whose first block forgets to compare the ID
RouteFrom_NoIDCheck(packet, n, ids) ==
    IF packet.payload.shape = "absent"
    THEN [pc |-> "panic", packet |-> packet, kind |-> KindOrder[1], val |-> "-"]
    ELSE [pc |-> "send", packet |-> packet, kind |-> KindOrder[1],
          val |-> DecodeBody(KindOrder[1], packet.payload).val]

\* The router's three `if packet.ID == cpc.<kind>SubID` blocks, entered at
\* block n with the registrations ids: the first block that matches either
\* panics on a nil payload or blocks sending the decoded value.
RECURSIVE RouteFrom(_, _, _)
RouteFrom(packet, n, ids) ==
    IF n > Len(KindOrder) THEN Idle
    ELSE IF packet.id = ids[KindOrder[n]]
    THEN IF packet.payload.shape = "absent"
         THEN [pc |-> "panic", packet |-> packet, kind |-> KindOrder[n],
               val |-> "-"]
         ELSE [pc |-> "send", packet |-> packet, kind |-> KindOrder[n],
               val |-> DecodeBody(KindOrder[n], packet.payload).val]
    ELSE RouteFrom(packet, n + 1, ids)

\* line 90: only frames of type "data" are routed
Route(packet, ids) ==
    IF packet.type = "data" THEN RouteFrom(packet, 1, ids) ELSE Idle

KindIndex(k) == CHOOSE n \in 1 .. Len(KindOrder) : KindOrder[n] = k

\* ------------------------------------------------------------------- init

Init ==
    /\ wsConn = 0
    /\ connClosed = {}
    /\ callerPc = "idle"
    /\ crashed = "no"
    /\ wsWrites = <<>>
    /\ subID = [k \in Kinds |-> ""]
    /\ reader = [i \in Loops |-> NoReader]
    /\ router = [i \in Loops |-> NotStarted]
    /\ nread = 0
    /\ chanClosed = [k \in Kinds |-> FALSE]
    /\ httpCalls = <<>>

Running == crashed = "no"

\* An unrecovered panic: the runtime ends the process, and with it the
\* caller and every goroutine.
Panic(reason) ==
    /\ crashed' = reason
    /\ callerPc' = "dead"
    /\ reader' = [i \in Loops |-> NoReader]
    /\ router' = [i \in Loops |-> NotStarted]
CallerReady == Running /\ callerPc = "idle"

NumStarts == Cardinality({j \in DOMAIN wsWrites : wsWrites[j].msg.type = startMsg})

\* frames consumed as acknowledgments by Connect: one per connection whose
\* handshake has completed
AcksRead ==
    IF callerPc = "handshake" \/ crashed = "handshake read"
    THEN wsConn - 1 ELSE wsConn

Steps == wsConn + NumStarts + Len(httpCalls) + (nread - AcksRead)

\* ------------------------------------------------- GQLClient.Connect, part 1
\* Dial, store the connection, write connection_init, then block reading.
ConnectDial ==
    /\ CallerReady
    /\ wsConn < MaxConnects
    /\ Steps < MaxSteps
    /\ \E dialed \in BOOLEAN :
        IF ~dialed
        THEN /\ Panic("dial")
             /\ UNCHANGED <<wsConn, connClosed, wsWrites, subID, nread,
                            chanClosed, httpCalls>>
        ELSE /\ wsConn' = wsConn + 1
             /\ wsWrites' = Append(wsWrites,
                    [msg |-> EncodeOperation(connectionInitMsg, "", "", "null",
                                             "token"),
                     conn |-> wsConn + 1, ok |-> TRUE])
             /\ callerPc' = "handshake"
             /\ UNCHANGED <<connClosed, crashed, subID, reader, router, nread,
                            chanClosed, httpCalls>>

\* a Connect that hands the acknowledgment frame to the read loop
ConnectAck_ForwardsAck ==
    /\ Running
    /\ callerPc = "handshake"
    /\ \E f \in FramesAt(nread + 1) :
        /\ nread' = nread + 1
        /\ reader' = [reader EXCEPT ![wsConn] =
                        [pc |-> "fwd", msg |-> Envelope(f), conn |-> wsConn]]
        /\ router' = [router EXCEPT ![wsConn] = Idle]
        /\ callerPc' = "idle"
    /\ UNCHANGED <<wsConn, connClosed, crashed, wsWrites, subID, chanClosed,
                   httpCalls>>

\* --------------------------------- GQLClient.Connect, part 2, and the facade
\* One frame arrives and is thrown away; both goroutines are started.  The
\* read loop calls ReadIncomingPayload at once and blocks on gqc.wsConn.
ConnectAck ==
    /\ Running
    /\ callerPc = "handshake"
    /\ \E f \in FramesAt(nread + 1) :
        /\ nread' = nread + 1
        /\ reader' = [reader EXCEPT ![wsConn] =
                        [pc |-> "read", msg |-> NoFrame, conn |-> wsConn]]
        /\ router' = [router EXCEPT ![wsConn] = Idle]
        /\ callerPc' = "idle"
    /\ UNCHANGED <<wsConn, connClosed, crashed, wsWrites, subID, chanClosed, httpCalls>>

\* ReadIncomingPayload panics on any read error, here on the caller's task
ConnectAckError ==
    /\ Running
    /\ callerPc = "handshake"
    /\ Panic("handshake read")
    /\ UNCHANGED <<wsConn, connClosed, wsWrites, subID, nread, chanClosed, httpCalls>>

\* a Subscribe that waits for the server's first frame before it returns
Subscribe_WaitsForFrame(kind, query, variables) ==
    /\ CallerReady
    /\ Steps < MaxSteps
    /\ wsConn # 0
    /\ \E id \in GenerateID :
        /\ wsWrites' = Append(wsWrites,
               [msg |-> EncodeOperation(startMsg, id, query, variables, ""),
                conn |-> wsConn, ok |-> wsConn \notin connClosed])
        /\ subID' = [subID EXCEPT ![kind] = id]
    /\ nread' = nread + 1
    /\ UNCHANGED <<wsConn, connClosed, callerPc, crashed, reader, router,
                   chanClosed, httpCalls>>

\* a Subscribe that keeps a kind's first registration
Subscribe_KeepsFirst(kind, query, variables) ==
    /\ CallerReady
    /\ Steps < MaxSteps
    /\ wsConn # 0
    /\ \E id \in GenerateID :
        /\ wsWrites' = Append(wsWrites,
               [msg |-> EncodeOperation(startMsg, id, query, variables, ""),
                conn |-> wsConn, ok |-> wsConn \notin connClosed])
        /\ subID' = [subID EXCEPT ![kind] = IF @ = "" THEN id ELSE @]
    /\ UNCHANGED <<wsConn, connClosed, callerPc, crashed, reader, router, nread,
                   chanClosed, httpCalls>>

\* ------------------------------------------------------ GQLClient.Subscribe
\* GenerateID, one WriteJSON of a start message whose error is dropped, and
\* the facade's assignment of the returned ID.  WriteJSON on a nil
\* connection dereferences nil; on a closed connection it returns an error.
Subscribe(kind, query, variables) ==
    /\ CallerReady
    /\ Steps < MaxSteps
    /\ IF wsConn = 0
       THEN /\ Panic("WriteJSON on nil connection")
            /\ UNCHANGED <<wsWrites, subID>>
       ELSE \E id \in GenerateID :
            /\ wsWrites' = Append(wsWrites,
                   [msg |-> EncodeOperation(startMsg, id, query, variables, ""),
                    conn |-> wsConn, ok |-> wsConn \notin connClosed])
            /\ subID' = [subID EXCEPT ![kind] = id]
            /\ UNCHANGED <<crashed, callerPc, reader, router>>
    /\ UNCHANGED <<wsConn, connClosed, nread, chanClosed,
                   httpCalls>>

SubscribeToNewMessages == Subscribe("msg", KindQuery["msg"], "{}")

SubscribeToSearchRequests == Subscribe("search", KindQuery["search"], "{}")

SubscribeToConfigResponses == Subscribe("cfg", KindQuery["cfg"], "{fields}")

\* -------------------------------------------------- ChatPlugClient.Close
\* wsConn.Close() with its error dropped; on a nil connection the call
\* dereferences nil.
Close ==
    /\ CallerReady
    /\ IF wsConn = 0
       THEN /\ Panic("Close on nil connection")
            /\ UNCHANGED connClosed
       ELSE /\ connClosed' = connClosed \cup {wsConn}
            /\ UNCHANGED <<crashed, callerPc, reader, router>>
    /\ UNCHANGED <<wsConn, wsWrites, subID, nread, chanClosed,
                   httpCalls>>

\* ---------------------------------------------------- GQLClient.Request
\* One client.Run on the request/response path, for the request built by
\* `op`; it succeeds or fails, and the error goes back to the caller.
GQLRequest(op) ==
    /\ CallerReady
    /\ Steps < MaxSteps
    /\ \E ok \in BOOLEAN : httpCalls' = Append(httpCalls, [op |-> op, ok |-> ok])
    /\ UNCHANGED <<wsConn, connClosed, callerPc, crashed, wsWrites, subID,
                   reader, router, nread, chanClosed>>

\* a caller's own query or mutation
Request == GQLRequest("request")

\* a retry after a failed call: what SendMessage does not do
SendMessage_Retry ==
    /\ CallerReady
    /\ Steps < MaxSteps
    /\ \E ok \in BOOLEAN :
        httpCalls' =
            IF ok THEN Append(httpCalls, [op |-> "sendMessage", ok |-> TRUE])
            ELSE httpCalls \o <<[op |-> "sendMessage", ok |-> FALSE],
                               [op |-> "sendMessage", ok |-> TRUE]>>
    /\ UNCHANGED <<wsConn, connClosed, callerPc, crashed, wsWrites, subID,
                   reader, router, nread, chanClosed>>

\* SendMessage: build the request, call Request once, print the error if
\* there is one.
SendMessage == GQLRequest("sendMessage")

\* a SetSearchResponse that needs the duplex connection open and its loop idle
SetSearchResponse_OverSocket ==
    /\ wsConn # 0
    /\ wsConn \notin connClosed
    /\ \A i \in Loops : reader[i].pc # "fwd" /\ router[i].pc # "send"
    /\ GQLRequest("setSearchResponse")

\* SetSearchResponse: the same with the other mutation.
SetSearchResponse == GQLRequest("setSearchResponse")

\* ------------------------------------------- the read loop (one per Connect)
\* A frame arrives on the connection the loop is blocked on.  A frame of
\* type "error" is inspected first (and may panic); then the loop blocks
\* sending it on `channel`.
ReaderRead(i) ==
    /\ Running
    /\ reader[i].pc = "read"
    /\ reader[i].conn \notin connClosed
    /\ Steps < MaxSteps
    /\ \E f \in FramesAt(nread + 1) :
        /\ nread' = nread + 1
        /\ IF InspectError(f) = "no"
           THEN /\ reader' = [reader EXCEPT ![i].pc = "fwd",
                                            ![i].msg = Envelope(f)]
                /\ UNCHANGED <<crashed, callerPc, router>>
           ELSE Panic(InspectError(f))
    /\ UNCHANGED <<wsConn, connClosed, wsWrites, subID, chanClosed,
                   httpCalls>>

\* The read fails (connection closed here or by the peer, broken transport,
\* undecodable frame): ReadIncomingPayload panics before it can return the
\* error, so the loop's `errChan <- err` is never reached.
ReaderReadError(i) ==
    /\ Running
    /\ reader[i].pc = "read"
    /\ Panic("loop read")
    /\ UNCHANGED <<wsConn, connClosed, wsWrites, subID, nread, chanClosed, httpCalls>>

\* `channel <- msg` meets `range packets`: the router takes the frame and
\* runs its checks up to the first blocking send; the read loop goes back
\* to ReadIncomingPayload on the current gqc.wsConn.
Forward(i) ==
    /\ Running
    /\ reader[i].pc = "fwd"
    /\ router[i].pc = "recv"
    /\ \E f \in FramesAt(reader[i].msg.seq) :
        /\ Envelope(f) = reader[i].msg
        /\ IF Route(f, subID).pc = "panic"
           THEN Panic("nil payload")
           ELSE /\ router' = [router EXCEPT ![i] = Route(f, subID)]
                /\ reader' = [reader EXCEPT ![i] =
                       [pc |-> "read", msg |-> NoFrame, conn |-> wsConn]]
                /\ UNCHANGED <<crashed, callerPc>>
    /\ UNCHANGED <<wsConn, connClosed, wsWrites, subID, nread, chanClosed, httpCalls>>

\* ------------------------------------------------------------ the consumer
\* A receive on the delivery channel of `kind` completes the blocked send
\* of one router, which then goes on with its remaining checks.  The packet
\* has passed one decode, so its payload is present and no later block can
\* dereference nil.
Receive(kind) ==
    /\ Running
    /\ \E i \in Loops :
        /\ router[i].pc = "send"
        /\ router[i].kind = kind
        /\ router' = [router EXCEPT ![i] =
               RouteFrom(router[i].packet, KindIndex(kind) + 1, subID)]
    /\ UNCHANGED <<wsConn, connClosed, callerPc, crashed, wsWrites, subID,
                   reader, nread, chanClosed, httpCalls>>

Next ==
    \/ ConnectDial
    \/ ConnectAck
    \/ ConnectAckError
    \/ SubscribeToNewMessages
    \/ SubscribeToSearchRequests
    \/ SubscribeToConfigResponses
    \/ Close
    \/ SendMessage
    \/ SetSearchResponse
    \/ Request
    \/ \E i \in Loops : ReaderRead(i)
    \/ \E i \in Loops : ReaderReadError(i)
    \/ \E i \in Loops : Forward(i)
    \/ \E k \in Kinds : Receive(k)

Spec == Init /\ [][Next]_vars
\* ======================================================================
\* The claims
\* ======================================================================

PairwiseDistinct(ids) == \A k1, k2 \in Kinds : k1 # k2 => ids[k1] # ids[k2]

WellFormed(kind, payload) == payload.shape = "body" /\ payload.kind = kind

\* IDs handed out by Subscribe* calls so far
AssignedIDs == {wsWrites[j].msg.id : j \in {n \in DOMAIN wsWrites :
                                             wsWrites[n].msg.type = startMsg}}

LoopStopped(i) == reader[i].pc \notin {"read", "fwd"}

\* C1: once Close() has been called and no read loop is running any more,
\* the process has not been aborted and the three delivery channels are
\* closed.
C1_CloseStopsLoopAndClosesChannels ==
    (connClosed # {} /\ \A i \in Loops : LoopStopped(i))
        => (crashed = "no" /\ \A k \in Kinds : chanClosed[k])

\* C2: a router never sends on a delivery channel for a frame whose ID no
\* Subscribe* call has assigned (the empty ID included).
C2_UnassignedIDNeverDelivered ==
    \A i \in Loops :
        router[i].pc = "send" => router[i].packet.id \in AssignedIDs

\* C3: a router never sends a value for a frame whose ID is a subscription's
\* but whose body failed to decode for the kind it matched.
C3_UndecodableBodyNeverDelivered ==
    \A i \in Loops :
        (router[i].pc = "send" /\ router[i].packet.id # "")
            => ~DecodeBody(router[i].kind, router[i].packet.payload).err

\* C4: (a) whenever a router starts a send on a kind's channel, the frame is
\* of type data, its ID is the ID registered for that kind at that moment,
\* and for a well-formed body the value sent is the body's value; (b) when
\* the registered IDs are pairwise distinct, a data frame handed to the
\* router whose ID is registered for kind k is sent on k's channel, and on
\* that channel first.
C4_StartsSend(i) == router'[i].pc = "send" /\ router'[i] # router[i]

C4_OnlyMatched(i) ==
    C4_StartsSend(i) =>
        /\ router'[i].packet.type = "data"
        /\ router'[i].packet.id = subID[router'[i].kind]
        /\ WellFormed(router'[i].kind, router'[i].packet.payload)
              => router'[i].val = router'[i].packet.payload.val

C4_MatchedSent(i) ==
    (/\ reader[i].pc = "fwd"
     /\ reader'[i].pc # "fwd"
     /\ crashed' = "no"
     /\ reader[i].msg.type = "data"
     /\ PairwiseDistinct(subID))
        => \A k \in Kinds :
              reader[i].msg.id = subID[k] =>
                 /\ router'[i].pc = "send"
                 /\ router'[i].kind = k
                 /\ Envelope(router'[i].packet) = reader[i].msg

C5_InitFirst ==
    (callerPc = "idle" /\ callerPc' = "handshake") =>
        /\ Len(wsWrites') = Len(wsWrites) + 1
        /\ SubSeq(wsWrites', 1, Len(wsWrites)) = wsWrites
        /\ wsWrites'[Len(wsWrites')].msg.type = connectionInitMsg
        /\ wsWrites'[Len(wsWrites')].conn = wsConn'
        /\ UNCHANGED <<nread, reader, router>>

C5_AckDiscarded ==
    (callerPc = "handshake" /\ callerPc' = "idle") =>
        /\ nread' = nread + 1
        /\ reader' = [reader EXCEPT ![wsConn] =
                        [pc |-> "read", msg |-> NoFrame, conn |-> wsConn]]
        /\ router' = [router EXCEPT ![wsConn] = Idle]
        /\ UNCHANGED wsWrites

C5_StartsAfterAck ==
    \A j \in DOMAIN wsWrites :
        wsWrites[j].msg.type = startMsg =>
            /\ wsWrites[j].conn \in 1 .. AcksRead
            /\ \E n \in 1 .. (j - 1) :
                  /\ wsWrites[n].msg.type = connectionInitMsg
                  /\ wsWrites[n].conn = wsWrites[j].conn

C5_LoopAfterAck ==
    \A i \in Loops : reader[i].pc # "none" => i \in 1 .. AcksRead

C5_HandshakeOrdered ==
    /\ [](C5_StartsAfterAck /\ C5_LoopAfterAck)
    /\ [][C5_InitFirst /\ C5_AckDiscarded]_vars

\* a start message written on the second connection, whose read loop is up
C5_Witness ==
    /\ callerPc = "idle"
    /\ wsConn = 2
    /\ reader[2].pc = "read"
    /\ \E j \in DOMAIN wsWrites :
          wsWrites[j].msg.type = startMsg /\ wsWrites[j].conn = 2

\* C6: a read error in the read loop does not abort the process.
C6_ReadErrorDoesNotAbort == crashed # "loop read"

\* C7: a Subscribe* call on a connected client makes exactly one WriteJSON
\* call, of a start message with a generated ID, which reaches the transport
\* if the connection is open; it registers that same ID for its kind and
\* returns without a frame being read and without any read loop or router
\* moving; and it can be taken whatever the read loops and routers are doing.
C7_SubscribeStep == subID' # subID \/ NumStarts' # NumStarts

C7_OneStart ==
    C7_SubscribeStep =>
        /\ Len(wsWrites') = Len(wsWrites) + 1
        /\ SubSeq(wsWrites', 1, Len(wsWrites)) = wsWrites
        /\ wsWrites'[Len(wsWrites')].msg.type = startMsg
        /\ wsWrites'[Len(wsWrites')].msg.id \in GenerateID
        /\ wsWrites'[Len(wsWrites')].conn = wsConn
        /\ wsConn \notin connClosed => wsWrites'[Len(wsWrites')].ok
        /\ \E k \in Kinds :
              subID' = [subID EXCEPT ![k] = wsWrites'[Len(wsWrites')].msg.id]
        /\ UNCHANGED <<nread, reader, router, callerPc, crashed>>

C7_NeverBlocked ==
    (CallerReady /\ wsConn # 0 /\ Steps < MaxSteps) =>
        /\ ENABLED SubscribeToNewMessages
        /\ ENABLED SubscribeToSearchRequests
        /\ ENABLED SubscribeToConfigResponses

C7_SubscribeReturnsAtOnce ==
    /\ []C7_NeverBlocked
    /\ [][C7_OneStart]_vars

\* a router is blocked sending a frame it matched against a kind that was
\* unregistered then and is registered now: the Subscribe call completed
\* while the router was blocked on delivery
C7_Witness ==
    \E i \in Loops :
        /\ router[i].pc = "send"
        /\ router[i].packet.id = ""
        /\ subID[router[i].kind] \in GenerateID

\* C8: every step that makes a call on the request/response path makes
\* exactly one, failed or not, and leaves the caller running and the
\* registrations, the delivery channels, the routers and the duplex
\* connection as they were.
C8_OneCallNothingElse ==
    [][httpCalls' # httpCalls =>
        /\ \E ok \in BOOLEAN, op \in {"request", "sendMessage", "setSearchResponse"} :
              httpCalls' = Append(httpCalls, [op |-> op, ok |-> ok])
        /\ UNCHANGED <<wsConn, connClosed, callerPc, crashed, wsWrites, subID,
                       reader, router, nread, chanClosed>>]_vars

\* a SendMessage call has failed while a router is blocked on delivery
C8_Witness ==
    /\ \E j \in DOMAIN httpCalls :
          httpCalls[j].op = "sendMessage" /\ ~httpCalls[j].ok
    /\ \E i \in Loops : router[i].pc = "send"
    /\ callerPc = "idle"

\* C9: Close() never aborts the process, whatever the connection state.
C9_CloseNeverAborts == crashed # "Close on nil connection"

\* C10: while a frame waits for a receiver on one channel, no frame read
\* later is received from another channel.
C10_StalledConsumerStallsAll ==
    [][\A i, j \in Loops :
        (/\ router[i].pc = "send"
         /\ router[j].pc = "send"
         /\ router[i].kind # router[j].kind
         /\ router'[j] # router[j]
         /\ crashed' = "no")
            => router[j].packet.seq <= router[i].packet.seq]_vars

\* C11: one active registration per kind, the latest.  Each kind's
\* registration is the ID of the last start message written for that kind
\* (so a Subscribe* call for one kind leaves the other two alone); a send is
\* only ever started for a frame whose ID is the latest of the channel's
\* kind, never for a superseded one; and a data frame carrying a kind's
\* latest ID goes to that kind's channel (after the channel of an earlier
\* kind holding the same ID, if there is one).
StartsOf(k) ==
    {j \in DOMAIN wsWrites : /\ wsWrites[j].msg.type = startMsg
                             /\ wsWrites[j].msg.payload.query = KindQuery[k]}

LastStartID(k) ==
    IF StartsOf(k) = {} THEN ""
    ELSE wsWrites[CHOOSE j \in StartsOf(k) : \A n \in StartsOf(k) : n <= j].msg.id

Resubscribed(k) ==
    \E j \in StartsOf(k) : wsWrites[j].msg.id # LastStartID(k)

C11_LatestRegistered == \A k \in Kinds : subID[k] = LastStartID(k)

C11_OnlyLatestSent(i) ==
    C4_StartsSend(i) => router'[i].packet.id = LastStartID(router'[i].kind)

C11_LatestSent(i) ==
    (/\ reader[i].pc = "fwd"
     /\ reader'[i].pc # "fwd"
     /\ crashed' = "no"
     /\ reader[i].msg.type = "data")
        => \A k \in Kinds :
              (Resubscribed(k) /\ reader[i].msg.id = LastStartID(k)) =>
                 /\ router'[i].pc = "send"
                 /\ Envelope(router'[i].packet) = reader[i].msg
                 /\ \/ router'[i].kind = k
                    \/ /\ KindIndex(router'[i].kind) < KindIndex(k)
                       /\ LastStartID(router'[i].kind) = LastStartID(k)

C12_AlwaysRunnable ==
    (CallerReady /\ Steps < MaxSteps) =>
        /\ ENABLED SendMessage
        /\ ENABLED SetSearchResponse
        /\ ENABLED Request

C12_OffTheSocket ==
    Len(httpCalls') > Len(httpCalls) =>
        UNCHANGED <<wsConn, connClosed, wsWrites, nread, reader, router, subID>>

C12_RequestsDoNotContend ==
    /\ []C12_AlwaysRunnable
    /\ [][C12_OffTheSocket]_vars

\* two calls have completed, the connection has been closed and a router is
\* blocked on a delivery
C12_Witness ==
    /\ Len(httpCalls) = 2
    /\ httpCalls[1].op = "request"
    /\ httpCalls[2].op = "setSearchResponse"
    /\ wsConn \in connClosed
    /\ \E i \in Loops : router[i].pc = "send"

\* C13: a subscription ID is written only while no router has been started
\* (a started router reads the three IDs for every frame it takes, with no
\* synchronisation with the caller's task).
C13_RegistrationsWrittenBeforeRouter ==
    [][subID' # subID => \A i \in Loops : router[i].pc = "none"]_vars

\* C14: no two read loops are blocked reading the same connection.
C14_SingleReader ==
    \A i, j \in Loops :
        (/\ i # j
         /\ reader[i].pc = "read"
         /\ reader[j].pc = "read")
            => reader[i].conn # reader[j].conn

\* C15: a frame of type error, whatever its payload, does not stop the read
\* loop: the inspection of its error list never aborts the process.
C15_ErrorFrameDoesNotStopLoop == crashed # "index out of range"

\* C16: a registered subscription ID is the ID of a start message that
\* reached the transport.
C16_RegisteredIDWasSent ==
    \A k \in Kinds :
        subID[k] # "" =>
            \E j \in DOMAIN wsWrites :
                /\ wsWrites[j].msg.type = startMsg
                /\ wsWrites[j].msg.id = subID[k]
                /\ wsWrites[j].ok

\* C17: every operation message written is either a connection_init with no
\* id field and a payload whose only field is the access token, or a start
\* with a non-empty id and a payload whose only fields are the query and its
\* variables (empty for messages and search requests, the field schema for
\* configuration).
C17_OperationShapes ==
    \A j \in DOMAIN wsWrites :
        LET m == wsWrites[j].msg IN
        \/ /\ m.type = connectionInitMsg
           /\ m.id = "<omitted>"
           /\ DOMAIN m.payload = {"accessToken"}
        \/ /\ m.type = startMsg
           /\ m.id \in GenerateID
           /\ DOMAIN m.payload = {"query", "variables"}
           /\ \E k \in Kinds :
                 /\ m.payload.query = KindQuery[k]
                 /\ m.payload.variables = IF k = "cfg" THEN "{fields}" ELSE "{}"

\* C18: a router whose send has been received does not start a second send
\* for the same frame.
C18_AtMostOneDelivery ==
    [][\A i \in Loops :
        (router[i].pc = "send" /\ router'[i].pc = "send")
            => router'[i] = router[i]]_vars

\* C19: when a router's value is taken from its channel, no data frame read
\* earlier from the transport is still waiting: neither in another router
\* blocked on another channel, nor in a read loop with an ID that is
\* registered.
C19_WaitsEarlier(i, seq) ==
    \/ /\ router[i].pc = "send"
       /\ router[i].packet.seq < seq
    \/ /\ reader[i].pc = "fwd"
       /\ reader[i].msg.type = "data"
       /\ \E k \in Kinds : subID[k] = reader[i].msg.id
       /\ reader[i].msg.seq < seq

C19_DeliveryInArrivalOrder ==
    [][\A i, j \in Loops :
        (/\ router[j].pc = "send"
         /\ router'[j] # router[j]
         /\ crashed' = "no"
         /\ router[i].pc = "send" => router[i].kind # router[j].kind)
            => ~C19_WaitsEarlier(i, router[j].packet.seq)]_vars

=============================================================================
